---- MODULE Spec2Model ----
(***************************************************************************)
(* Model of the AuditFlow rule engine: RedisStreamConsumer (consume loop,  *)
(* processEntry, applyRules), AlertService (createAlert with its           *)
(* recentAlerts cache and cleanup thread, updateStatus), Db (alerts        *)
(* table), JsonUtil.parseJson and RuleEngineApplication (main, shutdown    *)
(* hook, health endpoint).                                                 *)
(***************************************************************************)
EXTENDS Integers, Sequences, FiniteSets, TLC

VARIABLES
    stream,         \* entries XADDed to audit:events, in order; each is the entry's "data" field
    lastDelivered,  \* the consumer group's last-delivered position in the stream
    pending,        \* the group's pending entries list: delivered, not yet XACKed
    acked,          \* entries XACKed so far
    deliveries,     \* entry -> how many times a read returned it
    done,           \* entries whose processEntry call has returned
    running,        \* consumer -> RedisStreamConsumer.running
    interrupted,    \* consumer -> interrupt status of its consumer thread
    pc,             \* consumer -> position of its consumer thread
    batch,          \* consumer -> entries of the current read still to be processed
    cur,            \* consumer -> entry being processed (0: none)
    cands,          \* consumer -> createAlert calls applyRules still has to make
    recentAlerts,   \* consumer -> AlertService.recentAlerts (cache key -> timestamp)
    alerts,         \* rows of the alerts table, in insertion order
    now,            \* System.currentTimeMillis()
    insertFailed,   \* entries during whose processing Db.insertAlert returned -1
    existsFailed,   \* entries during whose processing Db.alertExists hit an SQLException
    reference,      \* the alerts table of the run whose cache is empty at every createAlert call
    instances,      \* the consumer processes of the group
    faults,         \* the kinds of call that can fail: "read", "store", "ack"
    ruleEvent,      \* the decoded event handed to applyRules
    ruleOut,        \* what applyRules did with ruleEvent
    call,           \* the last Db.insertAlert or AlertService.updateStatus call and its result
    app,            \* RuleEngineApplication: main thread, shutdown hook, health endpoint
    owner,          \* consumer thread -> the RedisStreamConsumer (and AlertService) it belongs to
    sweeper         \* consumer -> position of its AlertService cleanup thread

vars == <<stream, lastDelivered, pending, acked, deliveries, done, running, pc, batch,
          cur, cands, recentAlerts, alerts, now, insertFailed, existsFailed, reference,
          instances, faults, ruleEvent, ruleOut, call, app, interrupted, owner, sweeper>>

(***************************************************************************)
(* Values.  A Java reference that may be null is a sequence of length at   *)
(* most one.  A String is a sequence of one-character strings, so that     *)
(* toLowerCase, equalsIgnoreCase and contains are computed.                *)
(***************************************************************************)
None == <<>>
Some(x) == <<x>>
IsNull(o) == o = <<>>
Get(o) == o[1]

JStr(s) == [t |-> "str", s |-> s, n |-> 0]
JNum(n) == [t |-> "num", s |-> <<>>, n |-> n]

UpperLetters == <<"A","B","C","D","E","F","G","H","I","J","K","L","M",
                  "N","O","P","Q","R","S","T","U","V","W","X","Y","Z">>
LowerLetters == <<"a","b","c","d","e","f","g","h","i","j","k","l","m",
                  "n","o","p","q","r","s","t","u","v","w","x","y","z">>

toLowerCaseChar(c) ==
    IF \E i \in DOMAIN UpperLetters : UpperLetters[i] = c
    THEN LowerLetters[CHOOSE i \in DOMAIN UpperLetters : UpperLetters[i] = c]
    ELSE c

toLowerCase(s) == [i \in DOMAIN s |-> toLowerCaseChar(s[i])]

\* literal.equalsIgnoreCase(o): false for null, else same length and same letters up to case
equalsIgnoreCase(literal, o) ==
    /\ ~IsNull(o)
    /\ Len(Get(o)) = Len(literal)
    /\ \A i \in DOMAIN literal : toLowerCaseChar(Get(o)[i]) = toLowerCaseChar(literal[i])

\* s.contains(sub)
contains(s, sub) ==
    \E i \in 0..(Len(s) - Len(sub)) : SubSeq(s, i + 1, i + Len(sub)) = sub

Digits == <<"0","1","2","3","4","5","6","7","8","9">>

RECURSIVE NatToString(_)
NatToString(n) ==
    IF n < 10 THEN <<Digits[n + 1]>>
    ELSE NatToString(n \div 10) \o <<Digits[(n % 10) + 1]>>

\* Object.toString() of a decoded JSON value
valueToString(v) ==
    IF v.t = "str" THEN v.s
    ELSE IF v.n < 0 THEN <<"-">> \o NatToString(-v.n) ELSE NatToString(v.n)

\* RedisStreamConsumer.getString: null for an absent key, else value.toString()
getString(map, key) ==
    IF IsNull(map[key]) THEN None ELSE Some(valueToString(Get(map[key])))

(***************************************************************************)
(* The literals of applyRules.                                            *)
(***************************************************************************)
S_critical    == <<"c","r","i","t","i","c","a","l">>
S_error       == <<"e","r","r","o","r">>
S_warning     == <<"w","a","r","n","i","n","g">>
S_info        == <<"i","n","f","o">>
S_debug       == <<"d","e","b","u","g">>
S_payment     == <<"p","a","y","m","e","n","t">>
S_login       == <<"l","o","g","i","n">>
S_data_access == <<"d","a","t","a","_","a","c","c","e","s","s">>
S_security    == <<"s","e","c","u","r","i","t","y">>
S_auth        == <<"a","u","t","h">>
S_failed      == <<"f","a","i","l","e","d">>

R_Critical   == "Critical Event Detected"
R_Payment    == "Payment Failure"
R_Login      == "Failed Login Attempt"
R_Error      == "Error Event"
R_Security   == "Security Event"
R_DataAccess == "Suspicious Data Access"

\* eventId != null ? eventId.longValue() : null
longValue(eventId) == IF IsNull(eventId) THEN None ELSE Some(Get(eventId).n)

\* One createAlert call of applyRules: rule name, level, formatted message, event id
Candidate(rule, level, fmt, args, eventId) ==
    [rule_name |-> rule, level |-> level,
     message |-> [format |-> fmt, args |-> args], event_id |-> longValue(eventId)]

\* Rule 1: "critical".equalsIgnoreCase(severity)
Rule1Matches(eventType, severity, message) ==
    equalsIgnoreCase(S_critical, severity)

\* Rule 2 with the severity test narrowed to "error" alone
Rule2MatchesErrorOnly(eventType, severity, message) ==
    /\ equalsIgnoreCase(S_payment, eventType)
    /\ equalsIgnoreCase(S_error, severity)

\* Rule 2: payment and severity error or critical
Rule2Matches(eventType, severity, message) ==
    /\ equalsIgnoreCase(S_payment, eventType)
    /\ (equalsIgnoreCase(S_error, severity) \/ equalsIgnoreCase(S_critical, severity))

\* Rule 3 with the message searched as it is, without toLowerCase()
Rule3MatchesCaseSensitive(eventType, severity, message) ==
    /\ equalsIgnoreCase(S_login, eventType)
    /\ ~IsNull(message)
    /\ contains(Get(message), S_failed)

\* Rule 3: login and message.toLowerCase().contains("failed")
Rule3Matches(eventType, severity, message) ==
    /\ equalsIgnoreCase(S_login, eventType)
    /\ ~IsNull(message)
    /\ contains(toLowerCase(Get(message)), S_failed)

\* Rule 4 without the payment exclusion
Rule4MatchesAnyType(eventType, severity, message) ==
    equalsIgnoreCase(S_error, severity)

\* Rule 4: severity error and type not payment
Rule4Matches(eventType, severity, message) ==
    /\ equalsIgnoreCase(S_error, severity)
    /\ ~equalsIgnoreCase(S_payment, eventType)

\* Rule 5 taking every type that contains "access" as well
Rule5MatchesAccessToo(eventType, severity, message) ==
    /\ ~IsNull(eventType)
    /\ (contains(toLowerCase(Get(eventType)), S_security)
        \/ contains(toLowerCase(Get(eventType)), S_auth)
        \/ contains(toLowerCase(Get(eventType)), <<"a","c","c","e","s","s">>))

\* Rule 5: type contains "security" or "auth", ignoring case
Rule5Matches(eventType, severity, message) ==
    /\ ~IsNull(eventType)
    /\ (contains(toLowerCase(Get(eventType)), S_security)
        \/ contains(toLowerCase(Get(eventType)), S_auth))

\* Rule 5's level with "warning" left out of the high severities
Rule5LevelErrorUp(severity) ==
    IF equalsIgnoreCase(S_error, severity) \/ equalsIgnoreCase(S_critical, severity)
    THEN "high" ELSE "low"

\* Rule 5's level
Rule5Level(severity) ==
    IF equalsIgnoreCase(S_warning, severity) \/ equalsIgnoreCase(S_error, severity)
       \/ equalsIgnoreCase(S_critical, severity)
    THEN "high" ELSE "low"

\* Rule 6 with "warning" left out
Rule6MatchesErrorUp(eventType, severity, message) ==
    /\ equalsIgnoreCase(S_data_access, eventType)
    /\ (equalsIgnoreCase(S_error, severity) \/ equalsIgnoreCase(S_critical, severity))

\* Rule 6: data_access and severity warning, error or critical
Rule6Matches(eventType, severity, message) ==
    /\ equalsIgnoreCase(S_data_access, eventType)
    /\ (equalsIgnoreCase(S_warning, severity) \/ equalsIgnoreCase(S_error, severity)
        \/ equalsIgnoreCase(S_critical, severity))

\* applyRules raises before its first createAlert call: a null map (NullPointerException
\* in getString) or an id that is no Number (ClassCastException)
applyRulesThrows(event) ==
    \/ IsNull(event)
    \/ (~IsNull(Get(event).id) /\ Get(Get(event).id).t # "num")

\* The createAlert calls applyRules makes for a decoded event, in the order it makes them
applyRules(event) ==
    LET map       == Get(event)
        eventType == getString(map, "event_type")
        severity  == getString(map, "severity")
        source    == getString(map, "source")
        message   == getString(map, "message")
        eventId   == map.id
        When(b, c) == IF b THEN <<c>> ELSE <<>>
    IN  When(Rule1Matches(eventType, severity, message),
             Candidate(R_Critical, "critical", "Critical %s event from %s: %s",
                       <<eventType, source, message>>, eventId))
        \o When(Rule2Matches(eventType, severity, message),
             Candidate(R_Payment, "high", "Payment failure from %s: %s",
                       <<source, message>>, eventId))
        \o When(Rule3Matches(eventType, severity, message),
             Candidate(R_Login, "medium", "Failed login from %s: %s",
                       <<source, message>>, eventId))
        \o When(Rule4Matches(eventType, severity, message),
             Candidate(R_Error, "medium", "Error in %s from %s: %s",
                       <<eventType, source, message>>, eventId))
        \o When(Rule5Matches(eventType, severity, message),
             Candidate(R_Security, Rule5Level(severity), "Security event %s from %s: %s",
                       <<eventType, source, message>>, eventId))
        \o When(Rule6Matches(eventType, severity, message),
             Candidate(R_DataAccess, "high", "Data access alert from %s: %s",
                       <<source, message>>, eventId))

(***************************************************************************)
(* Bounds and program constants.                                           *)
(***************************************************************************)
MaxEntries == 2          \* entries ever added to the stream
MaxTicks == 2            \* clock ticks
BATCH_SIZE == 100
CACHE_TTL_MS == 60000

Consumers == {1, 2}
Entries == 1..MaxEntries

Min(a, b) == IF a < b THEN a ELSE b

(***************************************************************************)
(* JsonUtil.parseJson.  The text of the "data" field is represented by how *)
(* the decoder classifies it: blank, not decodable into a Map (a syntax    *)
(* error or a JSON value of another kind, both JsonProcessingException),   *)
(* the JSON literal null (readValue returns null and raises nothing), or   *)
(* a JSON object with its map.                                             *)
(***************************************************************************)
EmptyMap == [id |-> None, event_type |-> None, severity |-> None,
             source |-> None, message |-> None]

Data(kind, map) == [kind |-> kind, map |-> map]

parseJson(json) ==
    IF json.kind = "blank" THEN Some(EmptyMap)
    ELSE IF json.kind = "invalid" THEN Some(EmptyMap)
    ELSE IF json.kind = "null" THEN None
    ELSE Some(json.map)

\* The events the producer publishes in this model
EvPayment == [id |-> Some(JNum(1)), event_type |-> Some(JStr(S_payment)),
              severity |-> Some(JStr(S_critical)), source |-> Some(JStr(<<"a","p","i">>)),
              message |-> None]
EvAnonymous == [id |-> None, event_type |-> Some(JStr(S_auth)),
                severity |-> Some(JStr(S_error)), source |-> Some(JStr(<<"a","p","i">>)),
                message |-> None]

\* fields.get("data") of the entries of the stream: null when the field is absent
Payloads == {None, Some(Data("invalid", EmptyMap)), Some(Data("null", EmptyMap)),
             Some(Data("object", EvPayment)), Some(Data("object", EvAnonymous))}

(***************************************************************************)
(* Db: the alerts table has no uniqueness constraint (createAlertsTable).  *)
(***************************************************************************)
\* alertExists with the query never finding a row
alertExistsNever(rows, eventId, ruleName, ok) == FALSE

\* alertExists with the query restricted to the rows of status "new"
alertExistsOpenOnly(rows, eventId, ruleName, ok) ==
    IF IsNull(eventId) THEN FALSE
    ELSE IF ok
         THEN \E i \in DOMAIN rows :
                  /\ rows[i].event_id = eventId
                  /\ rows[i].rule_name = ruleName
                  /\ rows[i].status = "new"
         ELSE FALSE

\* alertExists with the query matching on the event id alone
alertExistsAnyRule(rows, eventId, ruleName, ok) ==
    IF IsNull(eventId) THEN FALSE
    ELSE IF ok
         THEN \E i \in DOMAIN rows : rows[i].event_id = eventId
         ELSE FALSE

\* Db.alertExists: false for a null event id, false when the query raises SQLException
alertExists(rows, eventId, ruleName, ok) ==
    IF IsNull(eventId) THEN FALSE
    ELSE IF ok
         THEN \E i \in DOMAIN rows :
                  rows[i].event_id = eventId /\ rows[i].rule_name = ruleName
         ELSE FALSE

\* insertAlert on a table whose status column defaults to "open"
insertAlertOpen(rows, cand, t) ==
    Append(rows, [id |-> Len(rows) + 1, rule_name |-> cand.rule_name, level |-> cand.level,
                  message |-> cand.message, status |-> "open", event_id |-> cand.event_id,
                  created_at |-> t, updated_at |-> t])

\* insertAlert as a replacement of the table's last row
insertAlertReplacesLast(rows, cand, t) ==
    LET kept == IF rows = <<>> THEN rows ELSE SubSeq(rows, 1, Len(rows) - 1)
    IN  Append(kept, [id |-> Len(kept) + 1, rule_name |-> cand.rule_name,
                      level |-> cand.level, message |-> cand.message, status |-> "new",
                      event_id |-> cand.event_id, created_at |-> t, updated_at |-> t])

\* Db.insertAlert: the row a successful INSERT adds (id from the SERIAL column, status from
\* the column's DEFAULT 'new', both timestamps from the one Instant.now())
insertAlert(rows, cand, t) ==
    Append(rows, [id |-> Len(rows) + 1, rule_name |-> cand.rule_name, level |-> cand.level,
                  message |-> cand.message, status |-> "new", event_id |-> cand.event_id,
                  created_at |-> t, updated_at |-> t])

\* What Db.insertAlert returns: the RETURNING id, or -1 after an SQLException
insertAlertReturn(rows, ok) == IF ok THEN Len(rows) + 1 ELSE -1

\* The values updateStatus is documented to take
Statuses == {"new", "acknowledged", "resolved"}

\* updateAlertStatus without its WHERE clause
updateAlertStatusAllRows(rows, alertId, status, t, ok) ==
    IF ok
    THEN [i \in DOMAIN rows |-> [rows[i] EXCEPT !.status = status, !.updated_at = t]]
    ELSE rows

\* Db.updateAlertStatus: UPDATE alerts SET status = ?, updated_at = ? WHERE id = ?
updateAlertStatus(rows, alertId, status, t, ok) ==
    IF ok
    THEN [i \in DOMAIN rows |->
              IF rows[i].id = alertId
              THEN [rows[i] EXCEPT !.status = status, !.updated_at = t]
              ELSE rows[i]]
    ELSE rows

\* What Db.updateAlertStatus returns: executeUpdate() > 0, or false after an SQLException
updateAlertStatusReturn(rows, alertId, ok) ==
    ok /\ \E i \in DOMAIN rows : rows[i].id = alertId

(***************************************************************************)
(* AlertService: cache key, cache lookup and write.                        *)
(***************************************************************************)
\* buildCacheKey keyed by the event id alone
buildCacheKeyEventOnly(eventId, ruleName) ==
    IF IsNull(eventId) THEN None ELSE Some(ToString(Get(eventId)) \o "-")

\* buildCacheKey without the null test: Java concatenates "null"
buildCacheKeyNoNullTest(eventId, ruleName) ==
    Some((IF IsNull(eventId) THEN "null" ELSE ToString(Get(eventId))) \o "-" \o ruleName)

\* AlertService.buildCacheKey: null for a null event id, else eventId + "-" + ruleName
buildCacheKey(eventId, ruleName) ==
    IF IsNull(eventId) THEN None ELSE Some(ToString(Get(eventId)) \o "-" \o ruleName)

\* The cache test never hitting
cacheHitNever(cache, cacheKey) == FALSE

\* cacheKey != null && recentAlerts.containsKey(cacheKey)
cacheHit(cache, cacheKey) == ~IsNull(cacheKey) /\ Get(cacheKey) \in DOMAIN cache

\* The cache write left out
cachePutNothing(cache, cacheKey, t) == cache

\* if (cacheKey != null) recentAlerts.put(cacheKey, System.currentTimeMillis())
cachePut(cache, cacheKey, t) ==
    IF IsNull(cacheKey) THEN cache
    ELSE [k \in (DOMAIN cache) \cup {Get(cacheKey)} |->
              IF k = Get(cacheKey) THEN t ELSE cache[k]]

\* One sweep of cleanupCache: drop the keys older than the time-to-live
sweep(cache, t) ==
    LET keep == {k \in DOMAIN cache : ~((t - cache[k]) > CACHE_TTL_MS)}
    IN  [k \in keep |-> cache[k]]

EmptyCache == [k \in {} |-> 0]

\* recentAlerts.get(key): null for a key the map does not hold
cacheGet(cache, key) == IF key \in DOMAIN cache THEN Some(cache[key]) ELSE None

\* timestamp != null && (now - timestamp) > CACHE_TTL_MS
expired(t, timestamp) == ~IsNull(timestamp) /\ (t - Get(timestamp)) > CACHE_TTL_MS

\* recentAlerts.remove(key)
cacheRemove(cache, key) == [k \in (DOMAIN cache) \ {key} |-> cache[k]]

\* createAlert of a run whose cache is empty at every call and whose store never fails
createAlertUncached(rows, cand, t) ==
    IF alertExists(rows, cand.event_id, cand.rule_name, TRUE) THEN rows
    ELSE insertAlert(rows, cand, t)

\* The outcomes of a call that can fail
Outcomes(kind) == IF kind \in faults THEN BOOLEAN ELSE {TRUE}

\* The outcomes of a store call: on a closed pool getConnection raises SQLException
StoreOutcomes == IF app.db = "closed" THEN {FALSE} ELSE Outcomes("store")

(***************************************************************************)
(* Initial states.  A process starts in main(): AlertService built with an *)
(* empty cache, consumer built, its thread not yet started.                *)
(***************************************************************************)
NoRuleOut == [state |-> "idle", calls |-> <<>>]

\* No store call made yet
NoCall == [op |-> "none", alertId |-> 0, status |-> "", ok |-> TRUE, id |-> 0,
           success |-> FALSE]

\* The process at the entry of main(): running is initialised to true, nothing is built,
\* no exit status yet (-1)
NewApp == [pc |-> "main", running |-> TRUE, serving |-> FALSE, db |-> "none",
           consumer |-> "none", hook |-> "none", latch |-> 1, responses |-> <<>>,
           exit |-> -1, group |-> "none", schema |-> {}]

\* main() has built the store pool, the alert service and the consumer and registered
\* the shutdown hook; consumer.start() comes next
BuiltApp == [NewApp EXCEPT !.pc = "start", !.serving = TRUE, !.db = "open",
                           !.consumer = "built", !.hook = "registered"]

\* The cleanup thread in its Thread.sleep(30000): no iteration under way, no key in hand
SleepingSweeper == [pc |-> "sleep", now |-> 0, keys |-> {}, visited |-> {}, key |-> None,
                    timestamp |-> None]

\* Every consumer thread in a process of its own
OwnProcess == [c \in Consumers |-> c]

\* Every consumer thread started by the one RedisStreamConsumer of process 1
OneProcess == [c \in Consumers |-> 1]

InitThreads(inst, flt, ev, application, own) ==
    /\ stream = <<>>
    /\ lastDelivered = 0
    /\ pending = {}
    /\ acked = {}
    /\ deliveries = [e \in Entries |-> 0]
    /\ done = {}
    /\ running = [c \in Consumers |-> FALSE]
    /\ interrupted = [c \in Consumers |-> FALSE]
    /\ pc = [c \in Consumers |-> "new"]
    /\ batch = [c \in Consumers |-> <<>>]
    /\ cur = [c \in Consumers |-> 0]
    /\ cands = [c \in Consumers |-> <<>>]
    /\ recentAlerts = [c \in Consumers |-> EmptyCache]
    /\ alerts = <<>>
    /\ now = 0
    /\ insertFailed = {}
    /\ existsFailed = {}
    /\ reference = <<>>
    /\ instances = inst
    /\ faults = flt
    /\ ruleEvent = ev
    /\ ruleOut = NoRuleOut
    /\ call = NoCall
    /\ app = application
    /\ owner = own
    /\ sweeper = [c \in Consumers |-> SleepingSweeper]

InitFrom(inst, flt, ev, application) == InitThreads(inst, flt, ev, application, OwnProcess)

InitWith(inst, flt, ev) == InitFrom(inst, flt, ev, NewApp)

(***************************************************************************)
(* The producer and the clock.                                             *)
(***************************************************************************)
\* XADD audit:events by the ingestion API
Publish ==
    /\ Len(stream) < MaxEntries
    /\ \E data \in Payloads : stream' = Append(stream, data)
    /\ UNCHANGED <<lastDelivered, pending, acked, deliveries, done, running, pc, batch, cur,
                   cands, recentAlerts, alerts, now, insertFailed, existsFailed, reference,
                   instances, faults, ruleEvent, ruleOut, call, app, interrupted, owner, sweeper>>

\* Time passes, one time-to-live at a time
Tick ==
    /\ now < MaxTicks * CACHE_TTL_MS
    /\ now' = now + CACHE_TTL_MS
    /\ UNCHANGED <<stream, lastDelivered, pending, acked, deliveries, done, running, pc, batch,
                   cur, cands, recentAlerts, alerts, insertFailed, existsFailed, reference,
                   instances, faults, ruleEvent, ruleOut, call, app, interrupted, owner, sweeper>>

(***************************************************************************)
(* RedisStreamConsumer: start, stop, consumeLoop.                          *)
(***************************************************************************)
\* The consumerThread field: the thread the last successful start() created (0: null).
\* The threads of one RedisStreamConsumer are created in the order of their numbers.
consumerThread(process) ==
    LET created == {c \in instances : owner[c] = process /\ pc[c] # "new"}
    IN  IF created = {} THEN 0 ELSE CHOOSE c \in created : \A d \in created : d <= c

\* jedisPool.close() at the end of a stop() whose compareAndSet succeeded: a thread
\* created by a later start() finds the pool closed
poolClosedBefore(c) ==
    \E d \in instances : d # c /\ owner[d] = owner[c] /\ interrupted[d]

\* jedisPool.getResource() and xreadGroup: a closed pool hands out no connection
ReadOutcomes(c) == IF poolClosedBefore(c) THEN {FALSE} ELSE Outcomes("read")

\* start(): running false -> true, a new consumer thread created and started, whatever
\* became of the thread of an earlier start()
Start(c) ==
    /\ c \in instances
    /\ pc[c] = "new"
    /\ \A d \in instances : (owner[d] = owner[c] /\ d < c) => pc[d] # "new"
    /\ ~running[owner[c]]
    /\ running' = [running EXCEPT ![owner[c]] = TRUE]
    /\ interrupted' = [interrupted EXCEPT ![c] = FALSE]
    /\ pc' = [pc EXCEPT ![c] = "loop"]
    /\ UNCHANGED <<stream, lastDelivered, pending, acked, deliveries, done, batch, cur, cands,
                   recentAlerts, alerts, now, insertFailed, existsFailed, reference,
                   instances, faults, ruleEvent, ruleOut, call, app, owner, sweeper>>

\* stop(): running true -> false and consumerThread.interrupt(); the thread sees them at
\* the head of its loop or in its back-off sleep.  join(10000) returns whether or not the
\* thread has ended, and the pool is closed.
Stop(c) ==
    /\ c \in instances
    /\ c = consumerThread(owner[c])
    /\ running[owner[c]]
    /\ running' = [running EXCEPT ![owner[c]] = FALSE]
    /\ interrupted' = [interrupted EXCEPT ![c] = TRUE]
    /\ UNCHANGED <<stream, lastDelivered, pending, acked, deliveries, done, pc, batch, cur,
                   cands, recentAlerts, alerts, now, insertFailed, existsFailed, reference,
                   instances, faults, ruleEvent, ruleOut, call, app, owner, sweeper>>

\* The rest of the batch dropped after an entry
NextPcDropsRest(rest) == "loop"

\* After an entry: the next entry of the batch, or back to the head of the loop
NextPc(rest) == IF rest = <<>> THEN "loop" ELSE "entry"

\* After a candidate: the next createAlert call, or the acknowledgment
NextCandPc(rest) == IF rest = <<>> THEN "ack" ELSE "cache"

\* xreadGroup with StreamEntryID.UNRECEIVED_ENTRY (">"): the entries never delivered to
\* any consumer of the group, at most `count` of them
unreceived(entries, last, count) ==
    [i \in 1..Min(Len(entries) - last, count) |-> last + i]

\* The loop condition never failing
loopConditionAlways(runningFlag, interruptedFlag) == TRUE

\* running.get() && !Thread.currentThread().isInterrupted()
loopCondition(runningFlag, interruptedFlag) == runningFlag /\ ~interruptedFlag

\* A failed read ending the consumer thread
afterFailedReadEnds(runningFlag) == "ended"

\* catch (Exception e) of consumeLoop: the back-off sleep if running.get(), else straight
\* back to the loop condition
afterFailedRead(runningFlag) == IF runningFlag THEN "backoff" ELSE "loop"

\* consumeLoop: the loop condition holds
LoopCheck(c) ==
    /\ c \in instances
    /\ pc[c] = "loop"
    /\ loopCondition(running[owner[c]], interrupted[c])
    /\ pc' = [pc EXCEPT ![c] = "read"]
    /\ UNCHANGED <<stream, lastDelivered, pending, acked, deliveries, done, running, batch,
                   cur, cands, recentAlerts, alerts, now, insertFailed, existsFailed,
                   reference, instances, faults, ruleEvent, ruleOut, call, app, interrupted, owner, sweeper>>

\* consumeLoop: the loop condition fails once running is cleared or the thread interrupted
ExitLoop(c) ==
    /\ c \in instances
    /\ pc[c] = "loop"
    /\ ~loopCondition(running[owner[c]], interrupted[c])
    /\ pc' = [pc EXCEPT ![c] = "ended"]
    /\ UNCHANGED <<stream, lastDelivered, pending, acked, deliveries, done, running, batch,
                   cur, cands, recentAlerts, alerts, now, insertFailed, existsFailed,
                   reference, instances, faults, ruleEvent, ruleOut, call, app, interrupted, owner, sweeper>>

\* consumeLoop: the batch read.  A read that raises is caught; an empty read leads back to
\* the loop condition.
ReadBatch(c) ==
    /\ c \in instances
    /\ pc[c] = "read"
    /\ \E ok \in ReadOutcomes(c) :
         LET got == IF ok THEN unreceived(stream, lastDelivered, BATCH_SIZE) ELSE <<>>
             ids == {got[i] : i \in DOMAIN got}
         IN  /\ batch' = [batch EXCEPT ![c] = got]
             /\ lastDelivered' = lastDelivered + Len(got)
             /\ pending' = pending \cup ids
             /\ deliveries' = [e \in Entries |->
                                  IF e \in ids THEN deliveries[e] + 1 ELSE deliveries[e]]
             /\ pc' = [pc EXCEPT ![c] = IF ok THEN NextPc(got)
                                        ELSE afterFailedRead(running[owner[c]])]
    /\ UNCHANGED <<stream, acked, done, running, cur, cands, recentAlerts, alerts, now,
                   insertFailed, existsFailed, reference, instances, faults, ruleEvent,
                   ruleOut, call, app, interrupted, owner, sweeper>>

\* consumeLoop: Thread.sleep(1000) after a failed read; interrupted, it restores the
\* interrupt status and breaks out of the loop
Backoff(c) ==
    /\ c \in instances
    /\ pc[c] = "backoff"
    /\ pc' = [pc EXCEPT ![c] = IF interrupted[c] THEN "ended" ELSE "loop"]
    /\ UNCHANGED <<stream, lastDelivered, pending, acked, deliveries, done, running, batch,
                   cur, cands, recentAlerts, alerts, now, insertFailed, existsFailed,
                   reference, instances, faults, ruleEvent, ruleOut, call, app, interrupted, owner, sweeper>>

(***************************************************************************)
(* processEntry, from its start to the first createAlert call.             *)
(***************************************************************************)
\* The entries of a read taken from the end
nextEntryLast(entries) == entries[Len(entries)]

\* for (StreamEntry entry : streamResult.getValue()): the list's iterator, front first
nextEntry(entries) == Head(entries)

ProcessEntry(c) ==
    /\ c \in instances
    /\ pc[c] = "entry"
    /\ LET e     == nextEntry(batch[c])
           rest  == Tail(batch[c])
           data  == stream[e]
           event == parseJson(Get(data))
       IN  /\ batch' = [batch EXCEPT ![c] = rest]
           /\ IF IsNull(data)
              THEN \* no data field: acknowledge and return
                   /\ cur' = [cur EXCEPT ![c] = e]
                   /\ cands' = [cands EXCEPT ![c] = <<>>]
                   /\ pc' = [pc EXCEPT ![c] = "ack"]
                   /\ done' = done
              ELSE IF applyRulesThrows(event)
              THEN \* caught by processEntry: logged, not acknowledged
                   /\ cur' = [cur EXCEPT ![c] = 0]
                   /\ cands' = [cands EXCEPT ![c] = <<>>]
                   /\ pc' = [pc EXCEPT ![c] = NextPc(rest)]
                   /\ done' = done \cup {e}
              ELSE /\ cur' = [cur EXCEPT ![c] = e]
                   /\ cands' = [cands EXCEPT ![c] = applyRules(event)]
                   /\ pc' = [pc EXCEPT ![c] = NextCandPc(applyRules(event))]
                   /\ done' = done
    /\ UNCHANGED <<stream, lastDelivered, pending, acked, deliveries, running, recentAlerts,
                   alerts, now, insertFailed, existsFailed, reference, instances, faults,
                   ruleEvent, ruleOut, call, app, interrupted, owner, sweeper>>

(***************************************************************************)
(* AlertService.createAlert, in its three steps.                           *)
(***************************************************************************)
\* The cache test: a hit returns -1 without touching the store
CacheCheck(c) ==
    /\ c \in instances
    /\ pc[c] = "cache"
    /\ LET cand == Head(cands[c])
           rest == Tail(cands[c])
           cacheKey == buildCacheKey(cand.event_id, cand.rule_name)
       IN  IF cacheHit(recentAlerts[owner[c]], cacheKey)
           THEN /\ cands' = [cands EXCEPT ![c] = rest]
                /\ pc' = [pc EXCEPT ![c] = NextCandPc(rest)]
                /\ reference' = createAlertUncached(reference, cand, now)
           ELSE /\ pc' = [pc EXCEPT ![c] = "exists"]
                /\ UNCHANGED <<cands, reference>>
    /\ UNCHANGED <<stream, lastDelivered, pending, acked, deliveries, done, running, batch,
                   cur, recentAlerts, alerts, now, insertFailed, existsFailed, instances,
                   faults, ruleEvent, ruleOut, call, app, interrupted, owner, sweeper>>

\* The durable test: a hit is written to the cache and returns -1
ExistsCheck(c) ==
    /\ c \in instances
    /\ pc[c] = "exists"
    /\ \E ok \in StoreOutcomes :
         LET cand == Head(cands[c])
             rest == Tail(cands[c])
             cacheKey == buildCacheKey(cand.event_id, cand.rule_name)
         IN  /\ existsFailed' = IF ~ok /\ ~IsNull(cand.event_id)
                                THEN existsFailed \cup ({cur[c]} \cap Entries) ELSE existsFailed
             /\ IF alertExists(alerts, cand.event_id, cand.rule_name, ok)
                THEN /\ recentAlerts' = [recentAlerts EXCEPT
                                            ![owner[c]] = cachePut(recentAlerts[owner[c]], cacheKey, now)]
                     /\ cands' = [cands EXCEPT ![c] = rest]
                     /\ pc' = [pc EXCEPT ![c] = NextCandPc(rest)]
                     /\ reference' = createAlertUncached(reference, cand, now)
                ELSE /\ pc' = [pc EXCEPT ![c] = "insert"]
                     /\ UNCHANGED <<recentAlerts, cands, reference>>
    /\ UNCHANGED <<stream, lastDelivered, pending, acked, deliveries, done, running, batch,
                   cur, alerts, now, insertFailed, instances, faults, ruleEvent, ruleOut, call, app, interrupted, owner, sweeper>>

\* The insert: a positive id is written to the cache, a failure (-1) is only logged
InsertAlert(c) ==
    /\ c \in instances
    /\ pc[c] = "insert"
    /\ \E ok \in StoreOutcomes :
         LET cand == Head(cands[c])
             rest == Tail(cands[c])
             cacheKey == buildCacheKey(cand.event_id, cand.rule_name)
         IN  /\ IF insertAlertReturn(alerts, ok) > 0
                THEN /\ alerts' = insertAlert(alerts, cand, now)
                     /\ recentAlerts' = [recentAlerts EXCEPT
                                            ![owner[c]] = cachePut(recentAlerts[owner[c]], cacheKey, now)]
                     /\ insertFailed' = insertFailed
                ELSE /\ insertFailed' = insertFailed \cup ({cur[c]} \cap Entries)
                     /\ UNCHANGED <<alerts, recentAlerts>>
             /\ call' = [NoCall EXCEPT !.op = "insertAlert", !.ok = ok,
                                        !.id = insertAlertReturn(alerts, ok)]
             /\ cands' = [cands EXCEPT ![c] = rest]
             /\ pc' = [pc EXCEPT ![c] = NextCandPc(rest)]
             /\ reference' = createAlertUncached(reference, cand, now)
    /\ UNCHANGED <<stream, lastDelivered, pending, acked, deliveries, done, running, batch,
                   cur, now, existsFailed, instances, faults, ruleEvent, ruleOut, app, interrupted, owner, sweeper>>

\* acknowledgeEntry at the end of processEntry; an xack that raises is caught and logged
Acknowledge(c) ==
    /\ c \in instances
    /\ pc[c] = "ack"
    /\ \E ok \in Outcomes("ack") :
         /\ acked' = IF ok THEN acked \cup {cur[c]} ELSE acked
         /\ pending' = IF ok THEN pending \ {cur[c]} ELSE pending
    /\ done' = done \cup {cur[c]}
    /\ cur' = [cur EXCEPT ![c] = 0]
    /\ pc' = [pc EXCEPT ![c] = NextPc(batch[c])]
    /\ UNCHANGED <<stream, lastDelivered, deliveries, running, batch, cands, recentAlerts,
                   alerts, now, insertFailed, existsFailed, reference, instances, faults,
                   ruleEvent, ruleOut, call, app, interrupted, owner, sweeper>>

\* cleanupCache: one sweep of the cleanup thread
CleanupCache(c) ==
    /\ c \in instances
    /\ owner[c] = c
    /\ sweeper[c].pc = "sleep"
    /\ recentAlerts' = [recentAlerts EXCEPT ![c] = sweep(recentAlerts[c], now)]
    /\ UNCHANGED <<stream, lastDelivered, pending, acked, deliveries, done, running, pc, batch,
                   cur, cands, alerts, now, insertFailed, existsFailed, reference, instances,
                   faults, ruleEvent, ruleOut, call, app, interrupted, owner, sweeper>>

\* cleanupCache, statement by statement.  The sleep is over: now is read once and the
\* iteration over recentAlerts.keySet() begins
SweepWake(c) ==
    /\ c \in instances
    /\ owner[c] = c
    /\ sweeper[c].pc = "sleep"
    /\ sweeper' = [sweeper EXCEPT ![c] = [SleepingSweeper EXCEPT
                                             !.pc = "iterate", !.now = now,
                                             !.keys = DOMAIN recentAlerts[c]]]
    /\ UNCHANGED <<stream, lastDelivered, pending, acked, deliveries, done, running, pc, batch,
                   cur, cands, recentAlerts, alerts, now, insertFailed, existsFailed,
                   reference, instances, faults, ruleEvent, ruleOut, call, app, interrupted,
                   owner>>

\* The iterator yields a key not yet visited (the keys present when the iteration began,
\* and possibly keys put since) and recentAlerts.get(key) reads its timestamp
SweepGet(c) ==
    /\ c \in instances
    /\ sweeper[c].pc = "iterate"
    /\ \E key \in (sweeper[c].keys \cup DOMAIN recentAlerts[c]) \ sweeper[c].visited :
         sweeper' = [sweeper EXCEPT ![c].pc = "test",
                                    ![c].key = Some(key),
                                    ![c].timestamp = cacheGet(recentAlerts[c], key),
                                    ![c].visited = @ \cup {key}]
    /\ UNCHANGED <<stream, lastDelivered, pending, acked, deliveries, done, running, pc, batch,
                   cur, cands, recentAlerts, alerts, now, insertFailed, existsFailed,
                   reference, instances, faults, ruleEvent, ruleOut, call, app, interrupted,
                   owner>>

\* The age test on the timestamp read, and recentAlerts.remove(key) when it is expired
SweepRemove(c) ==
    /\ c \in instances
    /\ sweeper[c].pc = "test"
    /\ recentAlerts' = [recentAlerts EXCEPT ![c] =
                           IF expired(sweeper[c].now, sweeper[c].timestamp)
                           THEN cacheRemove(recentAlerts[c], Get(sweeper[c].key))
                           ELSE recentAlerts[c]]
    /\ sweeper' = [sweeper EXCEPT ![c].pc = "iterate", ![c].key = None,
                                   ![c].timestamp = None]
    /\ UNCHANGED <<stream, lastDelivered, pending, acked, deliveries, done, running, pc, batch,
                   cur, cands, alerts, now, insertFailed, existsFailed, reference, instances,
                   faults, ruleEvent, ruleOut, call, app, interrupted, owner>>

\* The iteration is over once every key it began with has been visited: back to sleep
SweepSleep(c) ==
    /\ c \in instances
    /\ sweeper[c].pc = "iterate"
    /\ sweeper[c].keys \subseteq sweeper[c].visited
    /\ sweeper' = [sweeper EXCEPT ![c] = SleepingSweeper]
    /\ UNCHANGED <<stream, lastDelivered, pending, acked, deliveries, done, running, pc, batch,
                   cur, cands, recentAlerts, alerts, now, insertFailed, existsFailed,
                   reference, instances, faults, ruleEvent, ruleOut, call, app, interrupted,
                   owner>>

\* The process dies and is launched again: main() builds a new AlertService (empty cache)
\* and a new consumer; what the old one had read and not acknowledged stays pending
Restart(c) ==
    /\ c \in instances
    /\ owner[c] = c
    /\ pc[c] # "new"
    /\ running' = [running EXCEPT ![c] = FALSE]
    /\ interrupted' = [interrupted EXCEPT ![c] = FALSE]
    /\ pc' = [pc EXCEPT ![c] = "new"]
    /\ batch' = [batch EXCEPT ![c] = <<>>]
    /\ cur' = [cur EXCEPT ![c] = 0]
    /\ cands' = [cands EXCEPT ![c] = <<>>]
    /\ recentAlerts' = [recentAlerts EXCEPT ![c] = EmptyCache]
    /\ UNCHANGED <<stream, lastDelivered, pending, acked, deliveries, done, alerts, now,
                   insertFailed, existsFailed, reference, instances, faults, ruleEvent,
                   ruleOut, call, app, owner, sweeper>>

\* The steps of one consumer thread
Worker(c) ==
    \/ LoopCheck(c)
    \/ ExitLoop(c)
    \/ ReadBatch(c)
    \/ Backoff(c)
    \/ ProcessEntry(c)
    \/ CacheCheck(c)
    \/ ExistsCheck(c)
    \/ InsertAlert(c)
    \/ Acknowledge(c)

Next ==
    \/ Publish
    \/ Tick
    \/ \E c \in Consumers :
         \/ Start(c)
         \/ Stop(c)
         \/ Worker(c)
         \/ CleanupCache(c)
         \/ Restart(c)

\* The steps of one consumer thread whose reads never fail: it never backs off
WorkerReading(c) ==
    \/ LoopCheck(c)
    \/ ExitLoop(c)
    \/ ReadBatch(c)
    \/ ProcessEntry(c)
    \/ CacheCheck(c)
    \/ ExistsCheck(c)
    \/ InsertAlert(c)
    \/ Acknowledge(c)

NextReading ==
    \/ Publish
    \/ Tick
    \/ \E c \in Consumers :
         \/ Start(c)
         \/ Stop(c)
         \/ WorkerReading(c)
         \/ CleanupCache(c)
         \/ Restart(c)

AllFaults == {"read", "store", "ack"}

\* One consumer process; stream and store calls may fail
Init == InitWith({1}, AllFaults, None)
Spec == Init /\ [][Next]_vars

\* One consumer process; no call fails
InitReliable == InitWith({1}, {}, None)
SpecReliable == InitReliable /\ [][NextReading]_vars

\* Two consumer processes of the same group on one store; no call fails
InitTwo == InitWith({1, 2}, {}, None)
SpecTwo == InitTwo /\ [][NextReading]_vars

\* The shutdown hook after finalConsumer.stop() has returned, which it does when the
\* consumer thread has ended or when join(10000) has timed out: finalDb.close()
DbCloseAfterStop ==
    /\ \E c \in instances : interrupted[c]
    /\ app.db = "open"
    /\ app' = [app EXCEPT !.db = "closed"]
    /\ UNCHANGED <<stream, lastDelivered, pending, acked, deliveries, done, running, pc, batch,
                   cur, cands, recentAlerts, alerts, now, insertFailed, existsFailed,
                   reference, instances, faults, ruleEvent, ruleOut, call, interrupted, owner, sweeper>>

\* One consumer process from consumer.start() to the end of its thread under the shutdown
\* hook; reads may fail, store calls fail once the pool is closed, and the thread is always
\* scheduled again
NextWorker ==
    \/ Publish
    \/ DbCloseAfterStop
    \/ \E c \in Consumers :
         \/ Start(c)
         \/ Stop(c)
         \/ Worker(c)

InitWorker == InitFrom({1}, {"read"}, None, BuiltApp)
SpecWorker == InitWorker /\ [][NextWorker]_vars /\ \A c \in Consumers : WF_vars(Worker(c))

\* One consumer process from consumer.start() on, with the store pool left open; reads,
\* store calls and xack may fail
NextFaulty ==
    \/ Publish
    \/ \E c \in Consumers :
         \/ Start(c)
         \/ Stop(c)
         \/ Worker(c)

InitFaulty == InitFrom({1}, AllFaults, None, BuiltApp)
SpecFaulty == InitFaulty /\ [][NextFaulty]_vars

\* One RedisStreamConsumer whose start() and stop() are called again and again: every
\* successful start() creates a thread, and stop() returns after its bounded join whether
\* or not the thread it interrupted has left its batch
NextRestart == Publish \/ \E c \in Consumers : Start(c) \/ Stop(c) \/ Worker(c)

InitRestart == InitThreads(Consumers, {}, None, BuiltApp, OneProcess)

SpecRestart == InitRestart /\ [][NextRestart]_vars

\* One consumer process whose reads succeed and whose thread is always scheduled again;
\* store calls and xack may fail
InitLive == InitWith({1}, {"store", "ack"}, None)
SpecLive == InitLive /\ [][NextReading]_vars /\ \A c \in Consumers : WF_vars(WorkerReading(c))

(***************************************************************************)
(* AlertService called directly: createAlert and updateStatus are public,  *)
(* and are called here with arguments from small sets, by a caller that    *)
(* makes one call at a time.                                               *)
(***************************************************************************)
MaxAlerts == 2           \* createAlert is not called once a table holds this many rows

\* The first candidate of each event: one with an event id and one without
StoreCandidates == {applyRules(Some(EvPayment))[1], applyRules(Some(EvAnonymous))[1]}

\* A call of createAlert(ruleName, level, message, eventId) begins
CreateAlert(c) ==
    /\ c \in instances
    /\ pc[c] = "new"
    /\ Len(alerts) < MaxAlerts
    /\ Len(reference) < MaxAlerts
    /\ \E cand \in StoreCandidates : cands' = [cands EXCEPT ![c] = <<cand>>]
    /\ pc' = [pc EXCEPT ![c] = "cache"]
    /\ UNCHANGED <<stream, lastDelivered, pending, acked, deliveries, done, running, batch,
                   cur, recentAlerts, alerts, now, insertFailed, existsFailed, reference,
                   instances, faults, ruleEvent, ruleOut, call, app, interrupted, owner, sweeper>>

\* The call of createAlert returns to its caller, which takes the result
CreateAlertReturns(c) ==
    /\ c \in instances
    /\ pc[c] = "ack"
    /\ cur[c] = 0
    /\ pc' = [pc EXCEPT ![c] = "new"]
    /\ call' = NoCall
    /\ UNCHANGED <<stream, lastDelivered, pending, acked, deliveries, done, running, batch,
                   cur, cands, recentAlerts, alerts, now, insertFailed, existsFailed,
                   reference, instances, faults, ruleEvent, ruleOut, app, interrupted, owner, sweeper>>

\* AlertService.updateStatus(alertId, status): Db.updateAlertStatus and its result
UpdateStatus(c) ==
    /\ c \in instances
    /\ pc[c] = "new"
    /\ \E alertId \in 1..(MaxAlerts + 1), status \in Statuses, ok \in Outcomes("store") :
         /\ alerts' = updateAlertStatus(alerts, alertId, status, now, ok)
         /\ call' = [NoCall EXCEPT !.op = "updateStatus", !.alertId = alertId,
                                    !.status = status, !.ok = ok,
                                    !.success = updateAlertStatusReturn(alerts, alertId, ok)]
    /\ pc' = [pc EXCEPT ![c] = "status"]
    /\ UNCHANGED <<stream, lastDelivered, pending, acked, deliveries, done, running, batch,
                   cur, cands, recentAlerts, now, insertFailed, existsFailed, reference,
                   instances, faults, ruleEvent, ruleOut, app, interrupted, owner, sweeper>>

\* The call of updateStatus returns to its caller, which takes the result
UpdateStatusReturns(c) ==
    /\ c \in instances
    /\ pc[c] = "status"
    /\ pc' = [pc EXCEPT ![c] = "new"]
    /\ call' = NoCall
    /\ UNCHANGED <<stream, lastDelivered, pending, acked, deliveries, done, running, batch,
                   cur, cands, recentAlerts, alerts, now, insertFailed, existsFailed,
                   reference, instances, faults, ruleEvent, ruleOut, app, interrupted, owner, sweeper>>

NextStore ==
    \/ Tick
    \/ \E c \in Consumers :
         \/ CreateAlert(c)
         \/ CacheCheck(c)
         \/ ExistsCheck(c)
         \/ InsertAlert(c)
         \/ CreateAlertReturns(c)
         \/ UpdateStatus(c)
         \/ UpdateStatusReturns(c)
         \/ CleanupCache(c)

\* One AlertService; store calls may fail
InitStore == InitWith({1}, {"store"}, None)
SpecStore == InitStore /\ [][NextStore]_vars

\* One AlertService; no call fails
InitStoreReliable == InitWith({1}, {}, None)
SpecStoreReliable == InitStoreReliable /\ [][NextStore]_vars

\* One AlertService: its one caller and its cleanup thread, statement by statement
NextSweep ==
    \/ Tick
    \/ \E c \in Consumers :
         \/ CreateAlert(c)
         \/ CacheCheck(c)
         \/ ExistsCheck(c)
         \/ InsertAlert(c)
         \/ CreateAlertReturns(c)
         \/ SweepWake(c)
         \/ SweepGet(c)
         \/ SweepRemove(c)
         \/ SweepSleep(c)

SpecSweep == InitStore /\ [][NextSweep]_vars

(***************************************************************************)
(* applyRules on its own, over a bounded set of decoded events.            *)
(***************************************************************************)
T_Payment_mixed == <<"P","a","y","m","e","n","t">>
T_oauth         == <<"O","A","u","t","h","2">>
T_security      == <<"n","e","t","_","S","e","c","u","r","i","t","y">>
T_other         == <<"s","i","g","n","u","p">>
V_CRITICAL      == <<"C","R","I","T","I","C","A","L">>
V_fatal         == <<"f","a","t","a","l">>
M_failed        == <<"f","a","i","l","e","d"," ","p","a","s","s","w","o","r","d">>
M_FAILED        == <<"L","o","g","i","n"," ","F","A","I","L","E","D">>
M_ok            == <<"o","k">>

RuleIds == {None, Some(JNum(1)), Some(JNum(42)), Some(JStr(<<"x","7">>))}
RuleTypes == {None} \cup {Some(JStr(t)) : t \in {S_payment, T_Payment_mixed, S_login,
                 S_data_access, S_auth, T_oauth, T_security, T_other}}
RuleSeverities == {None} \cup {Some(JStr(v)) : v \in {S_debug, S_info, S_warning, S_error,
                 S_critical, V_CRITICAL, V_fatal}}
RuleMessages == {None} \cup {Some(JStr(m)) : m \in {M_failed, M_FAILED, M_ok}}
RuleSources == {None, Some(JStr(<<"a","p","i">>))}

\* What parseJson can hand to applyRules: null, or a map
RuleEvents == {None} \cup
    {Some(m) : m \in [id : RuleIds, event_type : RuleTypes, severity : RuleSeverities,
                      source : RuleSources, message : RuleMessages]}

\* applyRules(event) is called once
Evaluate ==
    /\ ruleOut.state = "idle"
    /\ ruleOut' = IF applyRulesThrows(ruleEvent)
                  THEN [state |-> "threw", calls |-> <<>>]
                  ELSE [state |-> "returned", calls |-> applyRules(ruleEvent)]
    /\ UNCHANGED <<stream, lastDelivered, pending, acked, deliveries, done, running, pc, batch,
                   cur, cands, recentAlerts, alerts, now, insertFailed, existsFailed,
                   reference, instances, faults, ruleEvent, call, app, interrupted, owner, sweeper>>

InitRules == \E ev \in RuleEvents : InitWith({}, {}, ev)
NextRules == Evaluate
SpecRules == InitRules /\ [][NextRules]_vars

(***************************************************************************)
(* Properties.                                                             *)
(***************************************************************************)
IsObject(data) == ~IsNull(data) /\ Get(data).kind = "object"
Identified(data) ==
    IsObject(data) /\ ~IsNull(Get(data).map.id) /\ Get(Get(data).map.id).t = "num"
Anonymous(data) == IsObject(data) /\ IsNull(Get(data).map.id)

\* The rows of the table that carry the event id eid, as the createAlert calls they record
RowsOf(rows, eid) ==
    LET sel == SelectSeq(rows, LAMBDA r : r.event_id = eid)
    IN  [i \in DOMAIN sel |-> [rule_name |-> sel[i].rule_name, level |-> sel[i].level,
                               message |-> sel[i].message, event_id |-> sel[i].event_id]]

\* C1: with one consumer process, under deliveries, cache sweeps, restarts and store
\* calls that fail, no two alert rows carry the same non-null event id and rule name.
C1_AtMostOneAlertPerPair ==
    \A i, j \in DOMAIN alerts :
        (/\ ~IsNull(alerts[i].event_id)
         /\ alerts[i].event_id = alerts[j].event_id
         /\ alerts[i].rule_name = alerts[j].rule_name) => i = j

\* C2: an entry during whose processing an insert failed is never acknowledged.
C2_NoAckAfterFailedInsert ==
    \A e \in acked : e \notin insertFailed

\* C3: an entry during whose processing the existence check hit a store error is not
\* acknowledged and stays pending.
C3_NoAckAfterFailedExistsCheck ==
    \A e \in existsFailed : e \in pending /\ e \notin acked

\* C4: an entry that was processed and left unacknowledged is eventually returned by a
\* later read, unless every consumer has stopped running.
C4_UnackedIsRedelivered ==
    \A e \in Entries :
        (e \in done /\ e \in pending)
            ~> (deliveries[e] >= 2 \/ \A c \in instances : ~running[c])

C7_TwoConsumersOneRowPerPair ==
    \A i \in DOMAIN alerts :
        ~IsNull(alerts[i].event_id) =>
            Cardinality({j \in DOMAIN alerts :
                            /\ alerts[j].event_id = alerts[i].event_id
                            /\ alerts[j].rule_name = alerts[i].rule_name}) <= 1

\* C8: an entry without data field, or whose data is no JSON object, is acknowledged
\* once processEntry has returned.
C8_MalformedIsAcknowledged ==
    \A e \in done : ~IsObject(stream[e]) => e \in acked

\* Rows without event id, and the deliveries of id-less events: completed, cut short
AnonymousRows == Cardinality({i \in DOMAIN alerts : IsNull(alerts[i].event_id)})
AnonymousDone == {e \in done : Anonymous(stream[e])}
AnonymousCut == {e \in 1..lastDelivered : Anonymous(stream[e]) /\ e \notin done}
AnonymousCalls(e) == Len(applyRules(Some(Get(stream[e]).map)))

RECURSIVE SumCalls(_)
SumCalls(S) ==
    IF S = {} THEN 0
    ELSE LET e == CHOOSE x \in S : TRUE IN AnonymousCalls(e) + SumCalls(S \ {e})

MaxRequests == 2         \* health requests answered

nonApp == <<stream, lastDelivered, pending, acked, deliveries, done, running, pc, batch,
            cur, cands, recentAlerts, alerts, now, insertFailed, existsFailed, reference,
            instances, faults, ruleEvent, ruleOut, call, interrupted, owner, sweeper>>

\* The /health handler with res.status(503) left out
healthResponseNoStatus(runningFlag) ==
    IF runningFlag THEN [code |-> 200, status |-> "healthy"]
    ELSE [code |-> 200, status |-> "shutting_down"]

\* The /health handler: Spark's default 200 with "healthy" while running.get(), else 503
healthResponse(runningFlag) ==
    IF runningFlag THEN [code |-> 200, status |-> "healthy"]
    ELSE [code |-> 503, status |-> "shutting_down"]

\* consumer.start(): running.compareAndSet(false, true)
consumerStart(state) == IF state \in {"built", "stopped"} THEN "started" ELSE state

\* consumer.stop(): running.compareAndSet(true, false); null-guarded by its callers
consumerStop(state) == IF state = "started" THEN "stopped" ELSE state

\* db.close(); null-guarded by its callers
dbClose(state) == IF state = "open" THEN "closed" ELSE state

\* The shutdown hook has started to run
ShutdownBegun == app.hook \notin {"none", "registered"}

\* The JVM is alive
Alive == app.pc # "exited"

\* The JVM ends on a signal, at once with no hook registered, else when the hook has
\* returned; its exit status is the signal's (128 + SIGTERM)
Exited == [app EXCEPT !.pc = "exited", !.serving = FALSE, !.exit = 143]

\* main going on to build the alert service after a startup failure
mainCatchContinues(state) == [state EXCEPT !.pc = "service"]

\* catch (Exception e) of main: System.exit(1); no hook is registered yet, the JVM ends
mainCatch(state) == [state EXCEPT !.pc = "exited", !.serving = FALSE, !.exit = 1]

\* try { setupHealthEndpoint(healthPort)
SetupHealthEndpoint ==
    /\ app.pc = "main"
    /\ app' = [app EXCEPT !.pc = "db", !.serving = TRUE]
    /\ UNCHANGED nonApp

\* The indexes createAlertsTable creates
AlertIndexes == {"idx_alerts_level", "idx_alerts_status", "idx_alerts_created_at",
                 "idx_alerts_event_id"}

\* The schema states a boot can find: nothing, the table alone, the table and its indexes
PriorSchemas == {{}, {"alerts"}, {"alerts"} \cup AlertIndexes}

\* Db.createAlertsTable: CREATE TABLE IF NOT EXISTS alerts, then each CREATE INDEX IF NOT
\* EXISTS
createAlertsTable(schema) == schema \cup {"alerts"} \cup AlertIndexes

\* Db.ensureAlertsTable: createAlertsTable only if information_schema shows no table
\* named alerts
ensureAlertsTable(schema) ==
    IF "alerts" \in schema THEN schema ELSE createAlertsTable(schema)

\* db = new Db(...): the pool's construction or verifyConnection (connection, schema
\* check) throws when the store cannot be reached
NewDb ==
    /\ app.pc = "db"
    /\ \E ok \in BOOLEAN :
         app' = IF ok THEN [app EXCEPT !.pc = "service", !.db = "open",
                                       !.schema = ensureAlertsTable(app.schema)]
                ELSE mainCatch([app EXCEPT !.db = "failed"])
    /\ UNCHANGED nonApp

\* alertService = new AlertService(db)
NewAlertService ==
    /\ app.pc = "service"
    /\ app' = [app EXCEPT !.pc = "consumer"]
    /\ UNCHANGED nonApp

\* What createConsumerGroup can meet: XGROUP CREATE succeeds, answers BUSYGROUP (the
\* group exists), fails otherwise, or the pool gives no connection to the stream
GroupOutcomes == {"created", "busygroup", "error", "unreachable"}

\* createConsumerGroup: jedisPool.getResource() stands outside the inner try, so its
\* exception leaves the constructor; what xgroupCreate raises is caught, and logged
\* unless it is BUSYGROUP
createConsumerGroup(outcome) == IF outcome = "unreachable" THEN "failed" ELSE "built"

\* consumer = new RedisStreamConsumer(...), whose last statement is createConsumerGroup()
NewConsumer ==
    /\ app.pc = "consumer"
    /\ \E outcome \in GroupOutcomes :
         app' = IF createConsumerGroup(outcome) = "built"
                THEN [app EXCEPT !.pc = "hook", !.consumer = "built", !.group = outcome]
                ELSE mainCatch([app EXCEPT !.consumer = "failed", !.group = outcome])
    /\ UNCHANGED nonApp

\* Runtime.getRuntime().addShutdownHook(...)
AddShutdownHook ==
    /\ app.pc = "hook"
    /\ app' = [app EXCEPT !.pc = "start", !.hook = "registered"]
    /\ UNCHANGED nonApp

\* consumer.start()
ConsumerStart ==
    /\ app.pc = "start"
    /\ app' = [app EXCEPT !.pc = "await", !.consumer = consumerStart(app.consumer)]
    /\ UNCHANGED nonApp

\* shutdownLatch.await() returns, then finally { consumer.stop(); db.close(); }
AwaitReturns ==
    /\ app.pc = "await"
    /\ app.latch = 0
    /\ app' = [app EXCEPT !.pc = "returned", !.consumer = consumerStop(app.consumer),
                          !.db = dbClose(app.db)]
    /\ UNCHANGED nonApp

\* A termination signal: the JVM runs the registered hook, whose first statement is
\* running.set(false); with no hook registered it ends at once
Signal ==
    /\ Alive
    /\ ~ShutdownBegun
    /\ app' = IF app.hook = "registered"
              THEN [app EXCEPT !.hook = "stopConsumer", !.running = FALSE]
              ELSE Exited
    /\ UNCHANGED nonApp

\* The hook closing the store pool where it should stop the consumer
HookClosesDbFirst ==
    /\ Alive
    /\ app.hook = "stopConsumer"
    /\ app' = [app EXCEPT !.hook = "closeDb", !.db = dbClose(app.db)]
    /\ UNCHANGED nonApp

\* The hook: finalConsumer.stop()
HookStopConsumer ==
    /\ Alive
    /\ app.hook = "stopConsumer"
    /\ app' = [app EXCEPT !.hook = "closeDb", !.consumer = consumerStop(app.consumer)]
    /\ UNCHANGED nonApp

\* The hook: finalDb.close()
HookCloseDb ==
    /\ Alive
    /\ app.hook = "closeDb"
    /\ app' = [app EXCEPT !.hook = "stopSpark", !.db = dbClose(app.db)]
    /\ UNCHANGED nonApp

\* The hook: Spark.stop()
HookStopSpark ==
    /\ Alive
    /\ app.hook = "stopSpark"
    /\ app' = [app EXCEPT !.hook = "countDown", !.serving = FALSE]
    /\ UNCHANGED nonApp

\* The hook: shutdownLatch.countDown()
HookCountDown ==
    /\ Alive
    /\ app.hook = "countDown"
    /\ app' = [app EXCEPT !.hook = "done", !.latch = 0]
    /\ UNCHANGED nonApp

\* The hook has returned: the JVM halts
Halt ==
    /\ Alive
    /\ app.hook = "done"
    /\ app' = Exited
    /\ UNCHANGED nonApp

\* GET /health is answered; the response is kept with whether shutdown had begun and
\* with what main had built when it was given
HealthRequest ==
    /\ Alive
    /\ app.serving
    /\ Len(app.responses) < MaxRequests
    /\ app' = [app EXCEPT !.responses =
                   Append(@, [code |-> healthResponse(app.running).code,
                              status |-> healthResponse(app.running).status,
                              during |-> ShutdownBegun,
                              db |-> app.db,
                              consumer |-> app.consumer])]
    /\ UNCHANGED nonApp

NextApp ==
    \/ SetupHealthEndpoint
    \/ NewDb
    \/ NewAlertService
    \/ NewConsumer
    \/ AddShutdownHook
    \/ ConsumerStart
    \/ AwaitReturns
    \/ Signal
    \/ HookStopConsumer
    \/ HookCloseDb
    \/ HookStopSpark
    \/ HookCountDown
    \/ Halt
    \/ HealthRequest

\* main() is entered; the store holds one of the prior schemas
InitApp == \E prior \in PriorSchemas :
               InitFrom({}, {}, None, [NewApp EXCEPT !.schema = prior])
SpecApp == InitApp /\ [][NextApp]_vars

(***************************************************************************)
(* Properties of applyRules.                                               *)
(***************************************************************************)
\* applyRules was called on a map whose id is absent or a number
Evaluated ==
    /\ ruleOut.state # "idle"
    /\ ~IsNull(ruleEvent)
    /\ (IsNull(Get(ruleEvent).id) \/ Get(Get(ruleEvent).id).t = "num")

EventType == getString(Get(ruleEvent), "event_type")
Severity == getString(Get(ruleEvent), "severity")
Message == getString(Get(ruleEvent), "message")

\* The (rule name, level) pairs of the createAlert calls made
CallPairs == {<<ruleOut.calls[i].rule_name, ruleOut.calls[i].level>> : i \in DOMAIN ruleOut.calls}
CallNames == {ruleOut.calls[i].rule_name : i \in DOMAIN ruleOut.calls}

FailedLoginEvent ==
    /\ Evaluated
    /\ EventType = Some(S_login)
    /\ Severity = Some(S_info)
    /\ ~IsNull(Message)
    /\ \E i \in 0..(Len(Get(Message)) - Len(S_failed)) :
           toLowerCase(SubSeq(Get(Message), i + 1, i + Len(S_failed))) = S_failed

SeverityIs(x) == ~IsNull(Severity) /\ toLowerCase(Get(Severity)) = x
SeverityAtLeastWarning == SeverityIs(S_warning) \/ SeverityIs(S_error) \/ SeverityIs(S_critical)
TypeHolds(x) ==
    /\ ~IsNull(EventType)
    /\ \E i \in 0..(Len(Get(EventType)) - Len(x)) :
           toLowerCase(SubSeq(Get(EventType), i + 1, i + Len(x))) = x
MessageHolds(x) ==
    /\ ~IsNull(Message)
    /\ \E i \in 0..(Len(Get(Message)) - Len(x)) :
           toLowerCase(SubSeq(Get(Message), i + 1, i + Len(x))) = x

TypeIsExactly(x) == EventType = Some(x)
TypeIsIgnoringCase(x) == ~IsNull(EventType) /\ toLowerCase(Get(EventType)) = x

RuleTable(TypeIs(_)) ==
    {<<R_Critical, "critical">> : x \in {1} \cap {IF SeverityIs(S_critical) THEN 1 ELSE 0}}
    \cup {<<R_Payment, "high">> : x \in {1} \cap
            {IF TypeIs(S_payment) /\ (SeverityIs(S_error) \/ SeverityIs(S_critical))
             THEN 1 ELSE 0}}
    \cup {<<R_Login, "medium">> : x \in {1} \cap
            {IF TypeIs(S_login) /\ MessageHolds(S_failed) THEN 1 ELSE 0}}
    \cup {<<R_Error, "medium">> : x \in {1} \cap
            {IF SeverityIs(S_error) /\ ~TypeIs(S_payment) THEN 1 ELSE 0}}
    \cup {<<R_Security, IF SeverityAtLeastWarning THEN "high" ELSE "low">> : x \in {1} \cap
            {IF TypeHolds(S_security) \/ TypeHolds(S_auth) THEN 1 ELSE 0}}
    \cup {<<R_DataAccess, "high">> : x \in {1} \cap
            {IF TypeIs(S_data_access) /\ SeverityAtLeastWarning THEN 1 ELSE 0}}

C14_SecurityEventLevel ==
    Evaluated =>
        /\ (R_Security \in CallNames) = (TypeHolds(S_security) \/ TypeHolds(S_auth))
        /\ Cardinality({i \in DOMAIN ruleOut.calls :
                           ruleOut.calls[i].rule_name = R_Security}) <= 1
        /\ \A i \in DOMAIN ruleOut.calls :
               ruleOut.calls[i].rule_name = R_Security =>
                   ruleOut.calls[i].level =
                       IF SeverityAtLeastWarning THEN "high" ELSE "low"

C14_Witness ==
    /\ Evaluated
    /\ EventType = Some(T_oauth)
    /\ Severity = Some(S_warning)
    /\ <<R_Security, "high">> \in CallPairs

\* C15: applyRules raises for no decoded event map.
C15_ApplyRulesNeverRaises ==
    (ruleOut.state # "idle" /\ ~IsNull(ruleEvent)) => ruleOut.state = "returned"

(***************************************************************************)
(* Properties of the alerts table under createAlert and updateStatus.      *)
(***************************************************************************)
\* C16: a resolved alert stays resolved and an acknowledged alert never goes back to new.
C16_StatusOnlyMovesForward ==
    [][\A i \in DOMAIN alerts :
          /\ alerts[i].status = "resolved" => alerts'[i].status = "resolved"
          /\ alerts[i].status = "acknowledged" => alerts'[i].status # "new"]_vars

\* The rows stored for the pair of row i
RowsOfPair(i) ==
    {j \in DOMAIN alerts : /\ alerts[j].event_id = alerts[i].event_id
                           /\ alerts[j].rule_name = alerts[i].rule_name}

C18_UpdateStatusEffect ==
    [][\A c \in instances :
          (pc[c] = "new" /\ pc'[c] = "status") =>
              LET alertId == call'.alertId
                  exists == \E i \in DOMAIN alerts : alerts[i].id = alertId
              IN  /\ call'.op = "updateStatus"
                  /\ call'.success = (call'.ok /\ exists)
                  /\ DOMAIN alerts' = DOMAIN alerts
                  /\ \A i \in DOMAIN alerts :
                         alerts'[i] =
                             IF call'.success /\ alerts[i].id = alertId
                             THEN [alerts[i] EXCEPT !.status = call'.status,
                                                    !.updated_at = now]
                             ELSE alerts[i]]_vars

\* updateStatus has just returned true for one of two rows, some time after its insertion
C18_Witness ==
    /\ call.op = "updateStatus"
    /\ call.success
    /\ Len(alerts) = 2
    /\ \E i, j \in DOMAIN alerts :
           /\ i # j
           /\ alerts[i].id = call.alertId
           /\ alerts[i].status = "acknowledged"
           /\ alerts[i].updated_at = now
           /\ alerts[i].updated_at > alerts[i].created_at
           /\ alerts[j].status = "new"
           /\ alerts[j].updated_at = alerts[j].created_at

\* C19: a successful insert adds exactly one row, of status "new" and with created-at
\* equal to updated-at, and returns its positive id; a failed one adds no row, returns -1
\* and lets createAlert run on.
C19_InsertEffect ==
    [][\A c \in instances :
          (pc[c] = "insert" /\ pc'[c] # "insert") =>
              /\ call'.op = "insertAlert"
              /\ pc'[c] = NextCandPc(Tail(cands[c]))
              /\ IF call'.ok
                 THEN /\ Len(alerts') = Len(alerts) + 1
                      /\ SubSeq(alerts', 1, Len(alerts)) = alerts
                      /\ alerts'[Len(alerts')].status = "new"
                      /\ alerts'[Len(alerts')].created_at = now
                      /\ alerts'[Len(alerts')].updated_at = alerts'[Len(alerts')].created_at
                      /\ alerts'[Len(alerts')].rule_name = Head(cands[c]).rule_name
                      /\ alerts'[Len(alerts')].event_id = Head(cands[c]).event_id
                      /\ call'.id = alerts'[Len(alerts')].id
                      /\ call'.id > 0
                      /\ \A i \in DOMAIN alerts : alerts[i].id # call'.id
                 ELSE /\ alerts' = alerts
                      /\ call'.id = -1]_vars

\* An insert has just returned the id of the second row
C19_Witness ==
    /\ call.op = "insertAlert"
    /\ call.ok
    /\ call.id = 2
    /\ Len(alerts) = 2
    /\ alerts[2].id = 2
    /\ alerts[2].status = "new"
    /\ alerts[2].created_at = now
    /\ now > 0

(***************************************************************************)
(* Properties of the health endpoint.                                      *)
(***************************************************************************)
\* C20: a health request made before shutdown began is answered 200 "healthy", one made
\* after is answered 503 "shutting_down", and no 200 follows a 503.
C20_HealthFollowsShutdown ==
    /\ \A i \in DOMAIN app.responses :
           IF app.responses[i].during
           THEN app.responses[i].code = 503 /\ app.responses[i].status = "shutting_down"
           ELSE app.responses[i].code = 200 /\ app.responses[i].status = "healthy"
    /\ \A i, j \in DOMAIN app.responses :
           (i < j /\ app.responses[i].code = 503) => app.responses[j].code # 200

\* A request answered before the signal and one answered after it
C20_Witness ==
    /\ Len(app.responses) = 2
    /\ app.responses[1].code = 200
    /\ ~app.responses[1].during
    /\ app.responses[2].code = 503
    /\ app.responses[2].during

(***************************************************************************)
(* The failed-login threshold of the README's rule table.                  *)
(***************************************************************************)
\* C26 as stated: a single matching login event raises no failed-login alert (the rule
\* waits for more than 5 login events within 5 minutes).
C26_SingleFailedLoginRaisesNone ==
    FailedLoginEvent => R_Login \notin CallNames

(***************************************************************************)
(* Properties of the dedup cache of AlertService.createAlert.              *)
(***************************************************************************)
\* The keys a step writes to the cache of consumer c
WrittenKeys(c) ==
    {k \in DOMAIN recentAlerts'[c] :
        k \notin DOMAIN recentAlerts[c] \/ recentAlerts'[c][k] # recentAlerts[c][k]}

\* The step is an insert of consumer c that returned a positive id
InsertSucceeds(c) == pc[c] = "insert" /\ pc'[c] # "insert" /\ call'.id > 0

\* The step is an insert of consumer c that returned -1
InsertFails(c) == pc[c] = "insert" /\ pc'[c] # "insert" /\ call'.id = -1

\* The step is a durable existence check of consumer c that returned a hit
DurableHit(c) == pc[c] = "exists" /\ pc'[c] \notin {"exists", "insert"}

\* C29: a step writes a key to the cache only if it is a successful insert or a durable
\* hit for a candidate with an event id, and then it writes exactly that candidate's key
\* (event id, rule name), stamped with the current time; a failed insert and a candidate
\* without event id write nothing.
C29_CacheWrittenOnInsertOrDurableHit ==
    [][\A c \in instances :
          LET cand == Head(cands[c])
              cacheKey == ToString(Get(cand.event_id)) \o "-" \o cand.rule_name
              settled == InsertSucceeds(c) \/ DurableHit(c)
          IN  /\ WrittenKeys(c) # {} =>
                    settled /\ ~IsNull(cand.event_id) /\ WrittenKeys(c) = {cacheKey}
              /\ (settled /\ ~IsNull(cand.event_id)) =>
                    /\ cacheKey \in DOMAIN recentAlerts'[c]
                    /\ recentAlerts'[c][cacheKey] = now
              /\ InsertFails(c) => recentAlerts'[c] = recentAlerts[c]
              /\ (pc[c] \in {"exists", "insert"} /\ pc'[c] # pc[c] /\ IsNull(cand.event_id)) =>
                    recentAlerts'[c] = recentAlerts[c]
      ]_vars

\* A key written after a durable hit: the only row is older than the key's time stamp
C29_Witness ==
    /\ Len(alerts) = 1
    /\ pc[1] = "ack"
    /\ \E k \in DOMAIN recentAlerts[1] : recentAlerts[1][k] > alerts[1].created_at

\* C30 as stated: a candidate whose key is in the cache but older than the time-to-live
\* is not answered from the cache; createAlert goes on to the durable existence check.
C30_ExpiredKeyFallsBack ==
    [][\A c \in instances :
          LET cand == Head(cands[c])
              cacheKey == ToString(Get(cand.event_id)) \o "-" \o cand.rule_name
          IN  (/\ pc[c] = "cache"
               /\ pc'[c] # "cache"
               /\ ~IsNull(cand.event_id)
               /\ cacheKey \in DOMAIN recentAlerts[c]
               /\ (now - recentAlerts[c][cacheKey]) > CACHE_TTL_MS) => pc'[c] = "exists"
      ]_vars

(***************************************************************************)
(* Properties of startup and shutdown.                                     *)
(***************************************************************************)
\* C21 as stated: the health endpoint reports healthy only once the store connection has
\* been verified and the consumer started.
C21_HealthyOnlyAfterStartup ==
    \A i \in DOMAIN app.responses :
        app.responses[i].code = 200 =>
            app.responses[i].db = "open" /\ app.responses[i].consumer = "started"

\* The shutdown hook is past its finalConsumer.stop() call
HookStopReturned == app.hook \in {"closeDb", "stopSpark", "countDown", "done"}

\* The shutdown hook is past its finalDb.close() call
HookCloseReturned == app.hook \in {"stopSpark", "countDown", "done"}

\* The shutdown hook is past its Spark.stop() call
HookSparkStopped == app.hook \in {"countDown", "done"}

\* C22: the store pool is closed only once the hook's consumer stop() has returned, the
\* health endpoint goes down on shutdown only once the store pool has been closed and
\* Spark.stop() was called.
C22_ShutdownOrder ==
    /\ app.db = "closed" => (HookStopReturned /\ HookCloseReturned)
    /\ (Alive /\ ShutdownBegun /\ ~app.serving) =>
           (app.db = "closed" /\ HookSparkStopped)

\* The consumer stopped and the store pool closed with the endpoint still answering
C22_Witness ==
    /\ app.hook = "stopSpark"
    /\ app.consumer = "stopped"
    /\ app.db = "closed"
    /\ app.serving

\* C23: once the initial store connection or schema verification has failed the process
\* has exited with status 1, and no consumer was constructed or started.
C23_StoreFailureIsFatal ==
    app.db = "failed" =>
        /\ app.pc = "exited"
        /\ app.exit = 1
        /\ app.consumer = "none"
        /\ app.hook = "none"

\* The store could not be reached at startup
C23_Witness ==
    /\ app.db = "failed"
    /\ app.pc = "exited"
    /\ app.exit = 1

(***************************************************************************)
(* Properties of the consumer thread: stop, failed reads, batch order.     *)
(***************************************************************************)
\* C24: once stop() has cleared the flag and interrupted the thread, the thread at the
\* head of its loop (or in its back-off sleep) goes nowhere but to its end, an ended
\* thread stays ended, and the thread does end.
C24_StopEndsTheLoop ==
    /\ [][\A c \in instances :
            /\ (pc[c] = "loop" /\ (~running[c] \/ interrupted[c])) =>
                   pc'[c] \in {"loop", "ended"}
            /\ (pc[c] = "backoff" /\ interrupted[c]) => pc'[c] \in {"backoff", "ended"}
            /\ pc[c] = "ended" => pc'[c] = "ended"
        ]_vars
    /\ \A c \in Consumers : interrupted[c] ~> (pc[c] = "ended")

\* The thread has ended after a stop, with entries read
C24_Witness ==
    /\ interrupted[1]
    /\ ~running[1]
    /\ pc[1] = "ended"
    /\ lastDelivered > 0

\* C25: the thread has ended only if stop was requested, a read made while running never
\* leads to the end of the thread, and a thread backing off after a failed read comes to
\* another read unless stop is requested meanwhile.
C25_FailedReadIsNotFatal ==
    /\ [](\A c \in Consumers : pc[c] = "ended" => (interrupted[c] /\ ~running[c]))
    /\ [][\A c \in instances :
            /\ (pc[c] = "read" /\ running[c]) => pc'[c] # "ended"
            /\ (pc[c] = "backoff" /\ ~interrupted[c]) => pc'[c] \in {"backoff", "loop"}
        ]_vars
    /\ \A c \in Consumers : (pc[c] = "backoff") ~> (pc[c] = "read" \/ interrupted[c])

\* A read has failed while the consumer was running: the thread is backing off
C25_Witness ==
    /\ pc[1] = "backoff"
    /\ running[1]
    /\ ~interrupted[1]

\* Processing of entry e has started
Begun(e) == e \in done \/ \E c \in instances : cur[c] = e

\* C27: processing of an entry starts only when every earlier entry has reached its
\* ack-or-no-ack decision, what is left of the batch comes after the entry in hand in
\* stream order, and acknowledgments are issued one at a time in that order.
C27_BatchInStreamOrder ==
    /\ [](\A j \in Entries : Begun(j) => \A i \in 1..(j - 1) : i \in done)
    /\ [](\A c \in instances : \A k \in DOMAIN batch[c] :
              /\ batch[c][k] \notin done
              /\ batch[c][k] > cur[c]
              /\ \A m \in DOMAIN batch[c] : k < m => batch[c][k] < batch[c][m])
    /\ [][\A e \in acked' \ acked :
            /\ acked' = acked \cup {e}
            /\ \A i \in 1..(e - 1) : i \in done
            /\ \A i \in acked : i < e
        ]_vars

\* The first entry of a batch of two is acknowledged, the second not yet begun
C27_Witness ==
    /\ pc[1] = "entry"
    /\ batch[1] = <<2>>
    /\ 1 \in acked
    /\ deliveries[2] = 1

\* C28 as stated: with stop requested while a batch is in hand, no entry is acknowledged
\* unless each of its candidates has its row in the store.
C28_StopCausesNoWrongfulAck ==
    \A e \in acked :
        Identified(stream[e]) =>
            LET calls == applyRules(parseJson(Get(stream[e])))
            IN  \A i \in DOMAIN calls :
                    \E r \in DOMAIN alerts :
                        /\ alerts[r].event_id = calls[i].event_id
                        /\ alerts[r].rule_name = calls[i].rule_name

(***************************************************************************)
(* Absent fields and the number of candidates of applyRules.               *)
(***************************************************************************)
\* C35 as stated: an event without event_type yields no call from Payment Failure, Failed
\* Login, Error Event, Security Event or Suspicious Data Access, and an event without
\* severity yields none from Critical Event, Payment Failure, Error Event or Suspicious
\* Data Access.
C35_AbsentFieldMatchesNoRule ==
    Evaluated =>
        /\ IsNull(EventType) =>
               CallNames \cap {R_Payment, R_Login, R_Error, R_Security, R_DataAccess} = {}
        /\ IsNull(Severity) =>
               CallNames \cap {R_Critical, R_Payment, R_Error, R_DataAccess} = {}

\* C39: applyRules makes at most two calls, with pairwise distinct rule names: at most one
\* of Critical Event and Error Event, and at most one of Payment Failure, Failed Login,
\* Security Event and Suspicious Data Access.
C39_AtMostTwoDistinctCandidates ==
    Evaluated =>
        /\ ruleOut.state = "returned"
        /\ Len(ruleOut.calls) <= 2
        /\ Cardinality(CallNames) = Len(ruleOut.calls)
        /\ Cardinality(CallNames \cap {R_Critical, R_Error}) <= 1
        /\ Cardinality(CallNames \cap {R_Payment, R_Login, R_Security, R_DataAccess}) <= 1

\* Two calls, one driven by the severity and one by the type
C39_Witness ==
    /\ Evaluated
    /\ CallNames = {R_Error, R_Security}
    /\ Len(ruleOut.calls) = 2

(***************************************************************************)
(* Construction of the consumer.                                           *)
(***************************************************************************)
\* C31 as stated: whatever group creation met (created, already exists, another error,
\* stream not reached), the consumer is constructed and main goes on to start it.
C31_ConstructionSurvivesGroupCreation ==
    app.group # "none" => (app.consumer \in {"built", "started", "stopped"} /\ app.exit # 1)

(***************************************************************************)
(* The startup schema step.                                                *)
(***************************************************************************)
\* C32 as stated: once the schema step of startup has succeeded the alerts table and all
\* of its lookup indexes exist, whatever the boot found, and the step run again changes
\* nothing.
C32_SchemaStepEnsuresTableAndIndexes ==
    app.db \in {"open", "closed"} =>
        /\ ({"alerts"} \cup AlertIndexes) \subseteq app.schema
        /\ ensureAlertsTable(app.schema) = app.schema

(***************************************************************************)
(* What the operations of the core leave alone in the alerts table.        *)
(***************************************************************************)
\* C33: no step removes a row or changes the id, rule name, level, message, event id or
\* created-at of an existing row, and the steps of createAlert, which is all that the
\* processing of an entry does to the store, leave the status of every existing row as it
\* is.
C33_RowsOnlyGrow ==
    [][/\ Len(alerts') >= Len(alerts)
       /\ \A i \in DOMAIN alerts :
              /\ alerts'[i].id = alerts[i].id
              /\ alerts'[i].rule_name = alerts[i].rule_name
              /\ alerts'[i].level = alerts[i].level
              /\ alerts'[i].message = alerts[i].message
              /\ alerts'[i].event_id = alerts[i].event_id
              /\ alerts'[i].created_at = alerts[i].created_at
       /\ \A c \in instances :
              pc[c] \in {"cache", "exists", "insert"} =>
                  \A i \in DOMAIN alerts : alerts'[i].status = alerts[i].status
    ]_vars

\* A second row was inserted after the first was resolved, which it still is
C33_Witness ==
    /\ Len(alerts) = 2
    /\ alerts[1].status = "resolved"
    /\ alerts[2].status = "new"
    /\ alerts[2].created_at > alerts[1].updated_at
    /\ alerts[1].updated_at > alerts[1].created_at

(***************************************************************************)
(* Failures inside processEntry.                                           *)
(***************************************************************************)
\* The positions of the consumer thread inside processEntry
InProcessEntry == {"entry", "cache", "exists", "insert", "ack"}

\* C34: whatever fails while an entry is processed (an undecodable or null payload,
\* applyRules raising, a store call, the xack), the thread stays inside the batch or
\* returns to the head of its loop, never ends or backs off, and it is outside
\* processEntry only when the batch is used up.
C34_EntryFailureIsContained ==
    /\ [](\A c \in instances :
             pc[c] \notin InProcessEntry => (batch[c] = <<>> /\ cur[c] = 0))
    /\ [][\A c \in instances :
            pc[c] \in InProcessEntry =>
                /\ pc'[c] \in InProcessEntry \cup {"loop"}
                /\ pc'[c] = "loop" => batch'[c] = <<>>
        ]_vars

\* The first entry of a batch failed (processed, not acknowledged) and the second is at
\* its acknowledgment
C34_Witness ==
    /\ 1 \in done
    /\ 1 \notin acked
    /\ cur[1] = 2
    /\ pc[1] = "ack"
    /\ deliveries[1] = 1
    /\ deliveries[2] = 1

(***************************************************************************)
(* The dedup cache against the store.                                      *)
(***************************************************************************)
\* C38: every key held in a dedup cache is the key (event id, rule name) of a row of the
\* alerts table.
C38_CachedKeyHasItsRow ==
    \A c \in instances :
        \A k \in DOMAIN recentAlerts[c] :
            \E i \in DOMAIN alerts :
                /\ ~IsNull(alerts[i].event_id)
                /\ k = ToString(Get(alerts[i].event_id)) \o "-" \o alerts[i].rule_name

\* Both candidates of an event are stored and cached
C38_Witness ==
    /\ Cardinality(DOMAIN recentAlerts[1]) = 2
    /\ Len(alerts) = 2
    /\ alerts[1].event_id = alerts[2].event_id
    /\ alerts[1].rule_name # alerts[2].rule_name

(***************************************************************************)
(* C36.  One worker loop per consumer, whatever the calls of start/stop.   *)
(***************************************************************************)
\* The positions of a worker loop between its loop condition and the end of its batch:
\* the read call and the processing of an entry
LoopBody == {"read"} \cup InProcessEntry

WorkerLoops(process) == {c \in instances : owner[c] = process /\ pc[c] \in LoopBody}

\* C36: for any sequence of start() and stop() calls on one consumer, at most one worker
\* loop is reading and processing entries at any time, also when stop() returned while
\* the old worker was still inside a batch and start() was then called again
C36_AtMostOneWorkerLoop ==
    \A process \in Consumers : Cardinality(WorkerLoops(process)) <= 1

(***************************************************************************)
(* C37.  The sweep removes expired entries only.                           *)
(***************************************************************************)
\* The keys the step takes out of the cache of c
RemovedKeys(c) == (DOMAIN recentAlerts[c]) \ (DOMAIN recentAlerts'[c])

\* C37: whatever the interleaving of the sweep's get and remove with the caller's
\* containsKey and put, an entry the sweep removes is older than the time-to-live at the
\* moment it is removed
C37_SweepRemovesExpiredOnly ==
    [][\A c \in Consumers : \A key \in RemovedKeys(c) :
           (now - recentAlerts[c][key]) > CACHE_TTL_MS]_vars

\* The sweep has removed a key while createAlert, called again for that key, is between
\* its cache test and its cache write
C37_Witness ==
    /\ pc[1] \in {"exists", "insert"}
    /\ sweeper[1].pc = "iterate"
    /\ \E key \in sweeper[1].visited :
         /\ key \notin DOMAIN recentAlerts[1]
         /\ buildCacheKey(Head(cands[1]).event_id, Head(cands[1]).rule_name) = Some(key)

====
